---- MODULE Spec2Model ----
(***************************************************************************)
(* Model of src/main.py: class RemotePython, a session that injects a      *)
(* Python runtime library into a target process, runs code in it and       *)
(* tears the injection down again.                                         *)
(*                                                                         *)
(* The methods defined in src/main.py (__init__, _initialize_process,      *)
(* _inject_and_initialize, run, set_python_path, cleanup, __enter__,       *)
(* __exit__, __call__) are translated statement by statement.  The helper  *)
(* methods they call but which src/main.py does not define (_inject_dll,   *)
(* is_python_injected, _initialize_python, is_python_initialized,          *)
(* _get_proc_address, _execute_remote, _unload_dll, _close_process,        *)
(* _close_cache, _initialize_cache, _get_default_python_dll) are modelled  *)
(* from spec.md sections 4.1-4.6; each of them is an OS-level operation    *)
(* whose success or failure is an input chosen by the environment.         *)
(***************************************************************************)
EXTENDS Integers, Sequences, FiniteSets, TLC

\* Number of public operations one behaviour performs on the session.
MaxOps == 3
\* Number of caller threads that share the session.
NumThreads == 2

Threads == 1..NumThreads

\* Arguments handed to run(): a str and a non-str object.
CodeArgs == { [type |-> "str", val |-> "noop"], [type |-> "int", val |-> "42"] }
\* Return values of PyRun_SimpleString.
ExitCodes == {"0", "-1"}

VARIABLES
  w,      \* the session object, the target process and the helper-call log
  phase,  \* "new": not constructed, "live": handed to the caller, "failed": __init__ raised
  ops,    \* number of public operations performed so far
  thr,    \* per caller thread: position inside run()
  last,   \* outcome of the latest public operation as the caller sees it
  scope   \* the with-statement the session is used in

vars == <<w, phase, ops, thr, last, scope>>

(***************************************************************************)
(* Exceptions.  kind is the class that reaches the caller, cause the       *)
(* exception it wraps (the {e} of the f-string), "none" when it wraps      *)
(* nothing.                                                                *)
(***************************************************************************)
NoExc == [kind |-> "none", cause |-> "none"]
Exc(k, c) == [kind |-> k, cause |-> c]
Raised(r) == r.exc.kind # "none"

\* class RemotePythonError and its subclasses InjectionError, InitializationError
RemotePythonError(cause) == Exc("RemotePythonError", cause)
InjectionError == Exc("InjectionError", "none")
InitializationError == Exc("InitializationError", "none")

\* A helper call that the method under translation makes, with its outcome.
Ev(c, n, a, ok) == [call |-> c, name |-> n, arg |-> a, ok |-> ok]
Log(x, c, n, a, ok) == [x EXCEPT !.log = Append(@, Ev(c, n, a, ok))]

\* Result of a method: the new world, the exception raised and the value returned.
Res(x, e, v) == [w |-> x, exc |-> e, ret |-> v]

\* The session before RemotePython(...) is evaluated.
W0 ==
  [ has_process |-> FALSE,     \* hasattr(self, '_process')
    handle      |-> "none",    \* OS process handle: "none", "open", "closed"
    dll_path    |-> "none",    \* self._dll_path
    cache       |-> "none",    \* self._proc_cache handle: "none", "open", "closed"
    procs       |-> {},        \* procedure names whose address is cached
    remote_dll  |-> FALSE,     \* hasattr(self, '_remote_dll')
    loaded      |-> FALSE,     \* the library is in the target's module list
    initialized |-> FALSE,     \* the runtime in the target is initialized
    cleanups    |-> 0,         \* cleanup() calls that returned normally
    log         |-> << >> ]    \* helper calls made so far, in order

(***************************************************************************)
(* Helper methods of RemotePython that src/main.py calls but does not      *)
(* define.  ok is the outcome the operating system gives the call.         *)
(***************************************************************************)

\* ProcessHandle.close(): releases the handle; on a closed handle a no-op.
_close_process(x, ok) ==
  IF x.handle = "closed"
    THEN Res(Log(x, "_close_process", "", "", TRUE), NoExc, "None")
    ELSE IF ok
      THEN Res(Log([x EXCEPT !.handle = "closed"], "_close_process", "", "", TRUE),
               NoExc, "None")
      ELSE Res(Log(x, "_close_process", "", "", FALSE), Exc("OSError", "none"), "None")

\* Closes the session's handle to the persistent cache store.
_close_cache(x, ok) ==
  IF x.cache = "closed"
    THEN Res(Log(x, "_close_cache", "", "", TRUE), NoExc, "None")
    ELSE IF ok
      THEN Res(Log([x EXCEPT !.cache = "closed"], "_close_cache", "", "", TRUE),
               NoExc, "None")
      ELSE Res(Log(x, "_close_cache", "", "", FALSE), Exc("OSError", "none"), "None")

\* What a completed call of the export `name` does to the runtime in the target.
ExportEffect(x, name) ==
  IF name = "Py_Finalize" THEN [x EXCEPT !.initialized = FALSE] ELSE x

\* SymbolResolver: a miss parses the export table and stores the offset.
_get_proc_address(x, name, ok) ==
  IF name \in x.procs
    THEN Res(x, NoExc, "address")
    ELSE IF ok
      THEN Res(Log([x EXCEPT !.procs = @ \cup {name}], "_get_proc_address", name, "", TRUE),
               NoExc, "address")
      ELSE Res(Log(x, "_get_proc_address", name, "", FALSE),
               Exc("SymbolNotFoundError", "none"), "None")

\* RemoteInvoker.call, first half: resolves the export, allocates and writes
\* the argument, and creates the execution context.  Needs an open handle.
_execute_remote_spawn(x, name, arg, ok) ==
  IF x.handle = "open" /\ ok
    THEN Res(Log([x EXCEPT !.procs = @ \cup {name}], "spawn", name, arg, TRUE),
             NoExc, "context")
    ELSE Res(Log(x, "spawn", name, arg, FALSE), Exc("RemoteCallError", "none"), "None")

\* RemoteInvoker.call, second half: waits for the context and reads its result.
_execute_remote_join(x, name, ok, rc) ==
  IF ok
    THEN Res(Log(ExportEffect(x, name), "join", name, "", TRUE), NoExc, rc)
    ELSE Res(Log(x, "join", name, "", FALSE), Exc("RemoteCallError", "none"), "None")

\* RemoteInvoker.call as one synchronous round trip.
_execute_remote(x, name, arg, ok, rc) ==
  LET s == _execute_remote_spawn(x, name, arg, ok)
  IN IF Raised(s) THEN s ELSE _execute_remote_join(s.w, name, TRUE, rc)

\* ModuleUnloader: frees the library in the target through the process handle.
_unload_dll(x, ok) ==
  IF x.handle = "open" /\ ok
    THEN Res(Log([x EXCEPT !.loaded = FALSE], "_unload_dll", "", "", TRUE), NoExc, "None")
    ELSE Res(Log(x, "_unload_dll", "", "", FALSE), Exc("RemoteCallError", "none"), "None")

\* Outcomes the environment gives the four steps of one cleanup().
CleanEnv == [fin : BOOLEAN, unl : BOOLEAN, cp : BOOLEAN, cc : BOOLEAN]

(***************************************************************************)
(* RemotePython.cleanup, src/main.py lines 124-135.                        *)
(***************************************************************************)
\* Lines 126-132: the try block; an exception of either call is swallowed
\* (printed when self._debug is set), and skips the rest of the block.
cleanup_remote(x, e) ==
  IF ~x.remote_dll
    THEN x
    ELSE LET fin == _execute_remote(x, "Py_Finalize", "", e.fin, "0")
         IN IF Raised(fin) THEN fin.w ELSE _unload_dll(fin.w, e.unl).w

\* cleanup() returning from its except clause: after a failed finalize or
\* unload nothing is closed.
cleanup_return_on_error(x, e) ==
  LET x0 == Log(x, "cleanup", "", "", TRUE)
      a  == cleanup_remote(x0, e)
      cp == _close_process(a, e.cp)
      cc == _close_cache(cp.w, e.cc)
  IN IF Len(a.log) > Len(x0.log) /\ ~a.log[Len(a.log)].ok
       THEN Res([a EXCEPT !.cleanups = @ + 1], NoExc, "None")
     ELSE IF Raised(cp) THEN cp
     ELSE IF Raised(cc) THEN cc
     ELSE Res([cc.w EXCEPT !.cleanups = @ + 1], NoExc, "None")

cleanup(x, e) ==
  LET a  == cleanup_remote(Log(x, "cleanup", "", "", TRUE), e)
      cp == _close_process(a, e.cp)
      cc == _close_cache(cp.w, e.cc)
  IN IF Raised(cp) THEN cp
     ELSE IF Raised(cc) THEN cc
     ELSE Res([cc.w EXCEPT !.cleanups = @ + 1], NoExc, "None")

(***************************************************************************)
(* Construction, src/main.py lines 48-91.                                  *)
(***************************************************************************)
\* Outcomes the environment gives the steps of one RemotePython(...) call.
ConsEnv ==
  [ pid   : BOOLEAN,                       \* win32api.OpenProcess succeeds
    exe   : BOOLEAN,                       \* win32process.GetModuleFileNameEx succeeds
    dll   : {"given", "default", "raise"}, \* python_dll_path given / default found / lookup raises
    cache : BOOLEAN,                       \* the cache store opens
    inj   : {"raise", "stale", "ok"},      \* _inject_dll raises / returns but nothing loaded / loads
    init  : {"raise", "noeffect", "ok"},   \* _initialize_python raises / returns without effect / works
    res   : BOOLEAN,                       \* Py_Finalize is found in the export table
    clean : CleanEnv ]

\* _initialize_process with the exception of OpenProcess swallowed.
_initialize_process_swallow(x, pidOk, exeOk) ==
  IF ~pidOk
    THEN Res(Log(x, "OpenProcess", "", "", FALSE), NoExc, "ProcessInfo")
    ELSE LET o == Log([x EXCEPT !.handle = "open"], "OpenProcess", "", "", TRUE)
         IN IF ~exeOk
              THEN Res(Log(o, "GetModuleFileNameEx", "", "", FALSE),
                       RemotePythonError("GetModuleFileNameEx"), "None")
              ELSE Res(Log(o, "GetModuleFileNameEx", "", "", TRUE), NoExc, "ProcessInfo")

\* Lines 61-72.
_initialize_process(x, pidOk, exeOk) ==
  IF ~pidOk
    THEN Res(Log(x, "OpenProcess", "", "", FALSE), RemotePythonError("OpenProcess"), "None")
    ELSE LET o == Log([x EXCEPT !.handle = "open"], "OpenProcess", "", "", TRUE)
         IN IF ~exeOk
              THEN Res(Log(o, "GetModuleFileNameEx", "", "", FALSE),
                       RemotePythonError("GetModuleFileNameEx"), "None")
              ELSE Res(Log(o, "GetModuleFileNameEx", "", "", TRUE), NoExc, "ProcessInfo")

\* Locating the runtime library on disk (external, spec section 1).
_get_default_python_dll(x, ok) ==
  IF ok THEN Res(x, NoExc, "default") ELSE Res(x, Exc("OSError", "none"), "None")

\* Opening the persistent cache store (external, spec section 6).
_initialize_cache(x, ok) ==
  IF ok
    THEN Res(Log([x EXCEPT !.cache = "open"], "_initialize_cache", "", "", TRUE),
             NoExc, "cache")
    ELSE Res(Log(x, "_initialize_cache", "", "", FALSE), Exc("OSError", "none"), "None")

\* ModuleInjector.inject: fails with InjectionError, or returns a base address.
_inject_dll(x, inj) ==
  IF inj = "raise"
    THEN Res(Log(x, "_inject_dll", "", "", FALSE), InjectionError, "None")
    ELSE Res(Log([x EXCEPT !.loaded = (inj = "ok")], "_inject_dll", "", "", TRUE),
             NoExc, "base")

\* ModuleInjector.isInjected: scans the target's loaded-module list.
is_python_injected(x) ==
  Res(Log(x, "is_python_injected", "", "", x.loaded), NoExc,
      IF x.loaded THEN "True" ELSE "False")

\* Invokes the runtime's init entry point in the target.
_initialize_python(x, init) ==
  IF init = "raise"
    THEN Res(Log(x, "_initialize_python", "", "", FALSE),
             Exc("RemoteCallError", "none"), "None")
    ELSE Res(Log([x EXCEPT !.initialized = (init = "ok")], "_initialize_python", "", "", TRUE),
             NoExc, "None")

is_python_initialized(x) ==
  Res(Log(x, "is_python_initialized", "", "", x.initialized), NoExc,
      IF x.initialized THEN "True" ELSE "False")

\* The try block without the is_python_initialized() test of line 82.
_inject_and_initialize_try_unchecked(x, e) ==
  LET r1 == _inject_dll(x, e.inj)
      x1 == [r1.w EXCEPT !.remote_dll = TRUE]
      r2 == is_python_injected(x1)
      r3 == _initialize_python(r2.w, e.init)
      r5 == _get_proc_address(r3.w, "Py_Finalize", e.res)
  IN IF Raised(r1) THEN r1
     ELSE IF r2.ret = "False" THEN Res(r2.w, InjectionError, "None")
     ELSE IF Raised(r3) THEN r3
     ELSE IF Raised(r5) THEN r5
     ELSE Res(r5.w, NoExc, "True")

\* Lines 77-87: the try block of _inject_and_initialize.
_inject_and_initialize_try(x, e) ==
  LET r1 == _inject_dll(x, e.inj)
      x1 == [r1.w EXCEPT !.remote_dll = TRUE]
      r2 == is_python_injected(x1)
      r3 == _initialize_python(r2.w, e.init)
      r4 == is_python_initialized(r3.w)
      r5 == _get_proc_address(r4.w, "Py_Finalize", e.res)
  IN IF Raised(r1) THEN r1
     ELSE IF r2.ret = "False" THEN Res(r2.w, InjectionError, "None")
     ELSE IF Raised(r3) THEN r3
     ELSE IF r4.ret = "False" THEN Res(r4.w, InitializationError, "None")
     ELSE IF Raised(r5) THEN r5
     ELSE Res(r5.w, NoExc, "True")

\* Lines 74-91: the except clause runs cleanup() and raises RemotePythonError;
\* an exception of cleanup() itself leaves the handler instead.
_inject_and_initialize(x, e) ==
  LET t == _inject_and_initialize_try(x, e)
      c == cleanup(t.w, e.clean)
  IN IF ~Raised(t) THEN t
     ELSE IF Raised(c) THEN c
     ELSE Res(c.w, RemotePythonError(t.exc.kind), "None")

\* Lines 48-59.
__init__(x, e) ==
  LET p == _initialize_process(x, e.pid, e.exe)
      x1 == [p.w EXCEPT !.has_process = TRUE]
      d == IF e.dll = "given" THEN Res(x1, NoExc, "given")
           ELSE _get_default_python_dll(x1, e.dll = "default")
      x2 == [d.w EXCEPT !.dll_path = d.ret]
      c == _initialize_cache(x2, e.cache)
      i == _inject_and_initialize(c.w, e)
  IN IF Raised(p) THEN p
     ELSE IF Raised(d) THEN d
     ELSE IF Raised(c) THEN c
     ELSE IF Raised(i) THEN i
     ELSE IF i.ret # "True" THEN Res(i.w, InitializationError, "None")
     ELSE Res(i.w, NoExc, "self")

(***************************************************************************)
(* Running code, src/main.py lines 93-122 and 143-145.                     *)
(***************************************************************************)
\* run() with the isinstance test inside the try block of line 109.
run_call_wrapped(x, code, ok) ==
  IF code.type # "str"
    THEN Res(x, RemotePythonError("TypeError"), "None")
    ELSE LET s == _execute_remote_spawn(x, "PyRun_SimpleString", code.val, ok)
         IN IF Raised(s) THEN Res(s.w, RemotePythonError(s.exc.kind), "None") ELSE s

\* Lines 106-112 up to the point where _execute_remote blocks on the target.
run_call(x, code, ok) ==
  IF code.type # "str"
    THEN Res(x, Exc("TypeError", "none"), "None")
    ELSE LET s == _execute_remote_spawn(x, "PyRun_SimpleString", code.val, ok)
         IN IF Raised(s) THEN Res(s.w, RemotePythonError(s.exc.kind), "None") ELSE s

\* run() tearing the session down when the remote call fails.
run_return_teardown(x, ok, rc) ==
  LET j == _execute_remote_join(x, "PyRun_SimpleString", ok, rc)
  IN IF Raised(j)
       THEN Res(cleanup(j.w, [fin |-> TRUE, unl |-> TRUE, cp |-> TRUE, cc |-> TRUE]).w,
                RemotePythonError(j.exc.kind), "None")
       ELSE j

\* Lines 109-112 from the point where _execute_remote's wait ends.
run_return(x, ok, rc) ==
  LET j == _execute_remote_join(x, "PyRun_SimpleString", ok, rc)
  IN IF Raised(j) THEN Res(j.w, RemotePythonError(j.exc.kind), "None") ELSE j

\* str(Path(p)) on the platform of win32api: separators become backslashes
\* and a trailing separator is dropped.
PathStr(p) ==
  CASE p = "C:/a"     -> "C:\\a"
    [] p = "C:\\b\\"  -> "C:\\b"
    [] OTHER          -> p

\* The join with the path-list separator of another platform.
RECURSIVE JoinColon(_)
JoinColon(ps) ==
  IF ps = << >> THEN ""
  ELSE IF Len(ps) = 1 THEN PathStr(ps[1])
  ELSE PathStr(ps[1]) \o ":" \o JoinColon(Tail(ps))

\* ";".join(...)
RECURSIVE Join(_)
Join(ps) ==
  IF ps = << >> THEN ""
  ELSE IF Len(ps) = 1 THEN PathStr(ps[1])
  ELSE PathStr(ps[1]) \o ";" \o Join(Tail(ps))

\* Path lists handed to set_python_path.
PathLists == { << >>, <<"C:\\a", "C:\\b">>, <<"C:/a", "C:\\b\\">> }

\* Lines 114-122.
set_python_path(x, paths, ok) ==
  LET r == _execute_remote(x, "PySys_SetPath", Join(paths), ok, "0")
  IN IF Raised(r) THEN r ELSE Res(r.w, NoExc, "None")

\* Lines 143-145: __call__ hands code to run() and returns what run() returns;
\* like run() it is split at the point where the remote call blocks.
call_call(x, code, ok) == run_call(x, code, ok)

\* __call__ without the return statement: the value of run() is dropped.
call_return_discard(x, ok, rc) ==
  LET r == run_return(x, ok, rc)
  IN IF Raised(r) THEN r ELSE Res(r.w, NoExc, "None")

call_return(x, ok, rc) == run_return(x, ok, rc)

(***************************************************************************)
(* Scoped use, src/main.py lines 137-141.                                  *)
(***************************************************************************)
__enter__(x) == Res(x, NoExc, "self")

\* The return value None does not suppress the exception of the body.
__exit__(x, e) == cleanup(x, e)

\* What the caller of a with-statement sees when its body ended with bodyExc.
WithOutcome(r, bodyExc) ==
  IF Raised(r) THEN r.exc
  ELSE IF r.ret = "True" THEN NoExc
  ELSE bodyExc

(***************************************************************************)
(* The lifecycle state of spec section 4.5, read off the session.          *)
(***************************************************************************)
Ready(x) ==
  /\ x.handle = "open" /\ x.cache = "open"
  /\ x.remote_dll /\ x.loaded /\ x.initialized
  /\ "Py_Finalize" \in x.procs

Closed(x) == x.handle = "closed" /\ x.cache = "closed"

State(x) == IF Ready(x) THEN "Ready" ELSE IF Closed(x) THEN "Closed" ELSE "Other"

\* Number of calls of c in a log.
Count(log, c) == Cardinality({i \in DOMAIN log : log[i].call = c})

\* Threads whose run() is blocked on an execution context in the target.
InFlight == {t \in Threads : thr[t].pc \in {"remote", "remote_call"}}

Outcome(op, t, r, pre) == [op |-> op, t |-> t, exc |-> r.exc, ret |-> r.ret, pre |-> pre]

\* A caller thread that is not inside run().
Idle == [pc |-> "idle", pre |-> "Other", code |-> [type |-> "none", val |-> ""]]

(***************************************************************************)
(* Initial state and the operations of a caller.                           *)
(***************************************************************************)
Init ==
  /\ w = W0
  /\ phase = "new"
  /\ ops = 0
  /\ thr = [t \in Threads |-> Idle]
  /\ last = [op |-> "none", t |-> 0, exc |-> NoExc, ret |-> "None", pre |-> "Other"]
  /\ scope = [st |-> "out", bound |-> "none", body |-> NoExc, seen |-> NoExc, cleanups |-> 0]

\* RemotePython(pid, python_dll_path, shelf_name)
Construct ==
  /\ phase = "new"
  /\ \E e \in ConsEnv :
       LET r == __init__(w, e)
       IN /\ w' = r.w
          /\ phase' = IF Raised(r) THEN "failed" ELSE "live"
          /\ last' = Outcome("__init__", 0, r, State(w))
  /\ ops' = ops + 1
  /\ UNCHANGED <<thr, scope>>

\* session.cleanup()
Cleanup ==
  /\ phase = "live" /\ ops < MaxOps
  /\ \E e \in CleanEnv :
       LET r == cleanup(w, e)
       IN /\ w' = r.w
          /\ last' = Outcome("cleanup", 0, r, State(w))
  /\ ops' = ops + 1
  /\ UNCHANGED <<phase, thr, scope>>

\* session.set_python_path(paths)
SetPath ==
  /\ phase = "live" /\ ops < MaxOps
  /\ \E paths \in PathLists, ok \in BOOLEAN :
       LET r == set_python_path(w, paths, ok)
       IN /\ w' = r.w
          /\ last' = Outcome("set_python_path", 0, r, State(w)) @@ [paths |-> paths]
  /\ ops' = ops + 1
  /\ UNCHANGED <<phase, thr, scope>>

\* Thread t calls session.run(code); it either fails at once or blocks on
\* the execution context it created in the target.
RunCall(t) ==
  /\ phase = "live" /\ ops < MaxOps
  /\ thr[t].pc = "idle"
  /\ \E code \in CodeArgs, ok \in BOOLEAN :
       LET r == run_call(w, code, ok)
       IN /\ w' = r.w
          /\ IF Raised(r)
               THEN /\ last' = Outcome("run", t, r, State(w)) @@ [code |-> code]
                    /\ thr' = thr
               ELSE /\ last' = last
                    /\ thr' = [thr EXCEPT ![t] = [pc |-> "remote", pre |-> State(w),
                                                  code |-> code]]
  /\ ops' = ops + 1
  /\ UNCHANGED <<phase, scope>>

\* The execution context of thread t ends and its run() returns or raises.
RunReturn(t) ==
  /\ thr[t].pc = "remote"
  /\ \E ok \in BOOLEAN, rc \in ExitCodes :
       LET r == run_return(w, ok, rc)
       IN /\ w' = r.w
          /\ last' = Outcome("run", t, r, thr[t].pre) @@ [code |-> thr[t].code]
  /\ thr' = [thr EXCEPT ![t] = Idle]
  /\ UNCHANGED <<phase, ops, scope>>

\* Thread t calls session(code).
Call(t) ==
  /\ phase = "live" /\ ops < MaxOps
  /\ thr[t].pc = "idle"
  /\ \E code \in CodeArgs, ok \in BOOLEAN :
       LET r == call_call(w, code, ok)
       IN /\ w' = r.w
          /\ IF Raised(r)
               THEN /\ last' = Outcome("__call__", t, r, State(w)) @@ [code |-> code]
                    /\ thr' = thr
               ELSE /\ last' = last
                    /\ thr' = [thr EXCEPT ![t] = [pc |-> "remote_call", pre |-> State(w),
                                                  code |-> code]]
  /\ ops' = ops + 1
  /\ UNCHANGED <<phase, scope>>

\* The execution context of thread t ends and its session(code) returns or raises.
CallReturn(t) ==
  /\ thr[t].pc = "remote_call"
  /\ \E ok \in BOOLEAN, rc \in ExitCodes :
       LET r == call_return(w, ok, rc)
       IN /\ w' = r.w
          /\ last' = Outcome("__call__", t, r, thr[t].pre) @@ [code |-> thr[t].code]
  /\ thr' = [thr EXCEPT ![t] = Idle]
  /\ UNCHANGED <<phase, ops, scope>>

\* with session as bound: ...
Enter ==
  /\ phase = "live" /\ ops < MaxOps
  /\ scope.st = "out"
  /\ LET r == __enter__(w)
     IN /\ w' = r.w
        /\ scope' = [scope EXCEPT !.st = "in", !.bound = r.ret]
        /\ last' = Outcome("__enter__", 0, r, State(w))
  /\ ops' = ops + 1
  /\ UNCHANGED <<phase, thr>>

\* The body of the with-statement ends, normally or with an exception.
Exit ==
  /\ scope.st = "in" /\ ops < MaxOps
  /\ \E e \in CleanEnv, bodyExc \in {NoExc, Exc("BodyError", "none")} :
       LET r == __exit__(w, e)
       IN /\ w' = r.w
          /\ scope' = [scope EXCEPT !.st = "left", !.body = bodyExc,
                         !.seen = WithOutcome(r, bodyExc),
                         !.cleanups = Count(r.w.log, "cleanup") - Count(w.log, "cleanup")]
          /\ last' = [op |-> "__exit__", t |-> 0, exc |-> WithOutcome(r, bodyExc),
                      ret |-> r.ret, pre |-> State(w)]
  /\ ops' = ops + 1
  /\ UNCHANGED <<phase, thr>>

Next ==
  \/ Construct
  \/ Cleanup
  \/ SetPath
  \/ \E t \in Threads : RunCall(t)
  \/ \E t \in Threads : RunReturn(t)
  \/ \E t \in Threads : Call(t)
  \/ \E t \in Threads : CallReturn(t)
  \/ Enter
  \/ Exit

Spec == Init /\ [][Next]_vars

(***************************************************************************)
(* Properties.                                                             *)
(***************************************************************************)
\* The names of the calls of a log, in order.
Calls(log) == [i \in DOMAIN log |-> log[i].call]

\* The step is a cleanup() call made by the caller.
CleanupStep == ops' = ops + 1 /\ thr' = thr /\ last'.op = "cleanup"

\* C1: cleanup() is idempotent; a cleanup() invoked on an already Closed
\* session is a no-op: it issues no remote finalize invocation, no library
\* unload, no process-handle close and no cache-handle close, and leaves the
\* session Closed.
C1_CleanupIdempotent ==
  [][(CleanupStep /\ last'.pre = "Closed") =>
       /\ Count(w'.log, "spawn") = Count(w.log, "spawn")
       /\ Count(w'.log, "_unload_dll") = Count(w.log, "_unload_dll")
       /\ Count(w'.log, "_close_process") = Count(w.log, "_close_process")
       /\ Count(w'.log, "_close_cache") = Count(w.log, "_close_cache")
       /\ Closed(w')]_vars

\* C2: cleanup() never raises: whichever of its steps fail, it returns
\* normally and the session ends in Closed.
C2_CleanupNeverRaises ==
  last.op = "cleanup" => (last.exc = NoExc /\ Closed(w))

\* C3: after cleanup() has completed and left the session Closed, every
\* run(code) with a string and every set_python_path fails with
\* InvalidStateError.
C3_InvalidStateAfterCleanup ==
  (last.op \in {"run", "set_python_path"} /\ last.pre = "Closed" /\ last.exc.kind # "TypeError")
    => last.exc.kind = "InvalidStateError"

\* C4: when construction fails, no process handle opened during it is left
\* open when the error reaches the caller.
C4_NoHandleLeftOpen ==
  phase = "failed" => w.handle # "open"

\* OpenProcess was called and failed: the process id cannot be opened.
OpenFailed == Len(w.log) >= 1 /\ w.log[1].call = "OpenProcess" /\ ~w.log[1].ok

RunFailStep ==
  /\ last'.op = "run" /\ last'.pre = "Ready"
  /\ last'.exc.kind \notin {"none", "TypeError"}
  /\ \/ ops' = ops + 1 /\ thr' = thr
     \/ \E t \in Threads : thr[t].pc = "remote" /\ thr'[t].pc = "idle"

\* A run() step leaves the session, the target and the cleanup count alone.
RunFrame ==
  /\ phase' = phase
  /\ w'.handle = w.handle /\ w'.cache = w.cache
  /\ w'.remote_dll = w.remote_dll /\ w'.loaded = w.loaded
  /\ w'.initialized = w.initialized
  /\ Count(w'.log, "cleanup") = Count(w.log, "cleanup")
  /\ w'.cleanups = w.cleanups

\* C6 as stated: a run(code) that fails on a Ready session raises
\* ExecutionError wrapping the cause and changes nothing else.
C6_ExecutionError ==
  [][RunFailStep => (last'.exc.kind = "ExecutionError" /\ RunFrame)]_vars

\* C6 as amended: a run(code) that fails on a Ready session raises
\* RemotePythonError wrapping the cause and changes nothing else: handles,
\* remote module and runtime stay as they were and no cleanup is triggered.
C6_RunFailureKeepsSession ==
  [][RunFailStep =>
       (last'.exc.kind = "RemotePythonError" /\ last'.exc.cause # "none" /\ RunFrame)]_vars

C6_Witness ==
  /\ last.op = "run" /\ last.pre = "Ready"
  /\ last.exc.kind = "RemotePythonError"
  /\ Ready(w) /\ Count(w.log, "cleanup") = 0

\* C7: at most one remote invocation is in flight per session at any time.
C7_OneInFlight ==
  Cardinality(InFlight) <= 1

\* C8: entering the scope returns the session itself; leaving it results in
\* exactly one cleanup() call, and a failure of the body still reaches the
\* caller.
C8_ScopeExit ==
  scope.st = "left" =>
    /\ scope.bound = "self"
    /\ scope.cleanups = 1
    /\ (scope.body # NoExc => scope.seen = scope.body)

\* The calls of a successful construction, in order.
ConstructOrder ==
  << "OpenProcess", "GetModuleFileNameEx", "_initialize_cache", "_inject_dll",
     "is_python_injected", "_initialize_python", "is_python_initialized",
     "_get_proc_address" >>

\* C9: a successful construction returns only after injection, cross-check,
\* initialization, initialization check and resolving the finalize entry, in
\* this order and each successful; the session handed over is Ready.
C9_ConstructedReady ==
  (phase = "live" /\ ops = 1) =>
    /\ Calls(w.log) = ConstructOrder
    /\ \A i \in DOMAIN w.log : w.log[i].ok
    /\ w.log[Len(w.log)].name = "Py_Finalize"
    /\ Ready(w)

C9_Witness ==
  phase = "live" /\ ops = 1 /\ last.op = "__init__" /\ last.ret = "self" /\ Ready(w)

\* C10: any failure during the inject/initialize phase of construction
\* (here: one whose automatic cleanup completed) reaches the caller as an
\* error of kind InitializationError.
C10_InitializationError ==
  (phase = "failed" /\ Count(w.log, "_inject_dll") >= 1 /\ w.cleanups = 1)
    => last.exc.kind = "InitializationError"

\* The calls a step adds to the log.
Added == SubSeq(w'.log, Len(w.log) + 1, Len(w'.log))

\* The remote invocations among the calls of a log.
Spawns(log) == SelectSeq(log, LAMBDA ev : ev.call = "spawn")

\* The step is a set_python_path(paths) call made by the caller.
SetPathStep == ops' = ops + 1 /\ thr' = thr /\ last'.op = "set_python_path"

\* The first n elements of ps, in order, with ";" between them.
RECURSIVE JoinedUpTo(_, _)
JoinedUpTo(ps, n) ==
  IF n = 0 THEN ""
  ELSE IF n = 1 THEN ps[1]
  ELSE JoinedUpTo(ps, n - 1) \o ";" \o ps[n]

\* C11 as stated: set_python_path(paths) forwards to PySys_SetPath, in a
\* single remote invocation, the elements of paths joined by ";".
C11_ForwardsElementsJoined ==
  [][SetPathStep =>
       /\ Len(Spawns(Added)) = 1
       /\ Spawns(Added)[1].name = "PySys_SetPath"
       /\ Spawns(Added)[1].arg = JoinedUpTo(last'.paths, Len(last'.paths))]_vars

\* C11 as amended: set_python_path(paths) forwards to PySys_SetPath, in a
\* single remote invocation, exactly one string: the elements of paths, each
\* converted by str(Path(p)), in their given order with ";" between them;
\* for ["C:\a","C:\b"] it is "C:\a;C:\b".
C11_ForwardsPathsJoined ==
  [][SetPathStep =>
       LET ps == [i \in DOMAIN last'.paths |-> PathStr(last'.paths[i])]
       IN /\ Len(Spawns(Added)) = 1
          /\ Spawns(Added)[1].name = "PySys_SetPath"
          /\ Spawns(Added)[1].arg = JoinedUpTo(ps, Len(ps))
          /\ (last'.paths = <<"C:\\a", "C:\\b">> => Spawns(Added)[1].arg = "C:\\a;C:\\b")]_vars

C11_Witness ==
  /\ last.op = "set_python_path" /\ last.exc = NoExc
  /\ last.paths = <<"C:/a", "C:\\b\\">>
  /\ \E i \in DOMAIN w.log :
       /\ w.log[i].call = "spawn" /\ w.log[i].name = "PySys_SetPath"
       /\ w.log[i].arg = "C:\\a;C:\\b" /\ w.log[i].ok

\* C12: calling the session as a function is equivalent to run(code): from
\* the same session state and with the same argument, every step of
\* session(code) makes the remote invocation run(code) makes, leaves the
\* state run(code) leaves, and returns the exit code or raises the error
\* run(code) does.
C12_CallIsRun ==
  [][/\ (ops' = ops + 1 /\ thr' = thr /\ last'.op = "__call__") =>
          \E ok \in BOOLEAN :
            LET r == run_call(w, last'.code, ok)
            IN Raised(r) /\ w' = r.w /\ last'.exc = r.exc /\ last'.ret = r.ret
     /\ \A t \in Threads :
          /\ (thr[t].pc = "idle" /\ thr'[t].pc = "remote_call") =>
               LET r == run_call(w, thr'[t].code, TRUE)
               IN ~Raised(r) /\ w' = r.w
          /\ (thr[t].pc = "remote_call" /\ thr'[t].pc = "idle") =>
               \E ok \in BOOLEAN, rc \in ExitCodes :
                 LET r == run_return(w, ok, rc)
                 IN /\ w' = r.w /\ last'.op = "__call__"
                    /\ last'.exc = r.exc /\ last'.ret = r.ret
                    /\ (ok => last'.ret = rc)]_vars

C12_Witness ==
  last.op = "__call__" /\ last.exc = NoExc /\ last.ret \in ExitCodes /\ last.code.type = "str"

\* The remote finalize invocations among the calls of a log.
Finalizes(log) == SelectSeq(log, LAMBDA ev : ev.call = "spawn" /\ ev.name = "Py_Finalize")

\* Runtime initialization failed during construction: the init invocation
\* raised or the initialized check was false.
InitFailed ==
  \E i \in DOMAIN w.log :
    /\ w.log[i].call \in {"_initialize_python", "is_python_initialized"}
    /\ ~w.log[i].ok

\* C13: when runtime initialization fails during construction, cleanup is
\* triggered before the error reaches the caller and the session is Closed
\* (process handle and cache handle closed) when the error is raised.
C13_InitFailureCloses ==
  (phase = "failed" /\ InitFailed) =>
    (Count(w.log, "cleanup") = 1 /\ Closed(w))

\* Injection failed during construction: the inject step raised or the
\* cross-check did not find the library in the target.
InjectFailed ==
  \E i \in DOMAIN w.log :
    /\ w.log[i].call \in {"_inject_dll", "is_python_injected"}
    /\ ~w.log[i].ok

\* C14: when injection fails the session does not count as holding a remote
\* module: the cleanup that follows (here: one that completes) performs no
\* remote finalize invocation and no library unload.
C14_InjectFailureNoFinalize ==
  (phase = "failed" /\ InjectFailed /\ w.cleanups = 1) =>
    (Len(Finalizes(w.log)) = 0 /\ Count(w.log, "_unload_dll") = 0)

\* C15: in every cleanup of a session that holds a remote module (here: a
\* Ready one, and a cleanup that returns) the library unload is attempted,
\* also when the remote finalize invocation fails.
C15_UnloadAlwaysAttempted ==
  [][(CleanupStep /\ last'.pre = "Ready" /\ last'.exc = NoExc)
       => Count(Added, "_unload_dll") = 1]_vars

\* C16: in every cleanup the remote finalize invocation precedes the library
\* unload and both precede the close of the process handle; no remote
\* invocation or unload is ever issued through a process handle that has
\* already been closed.  Stated for sessions all of whose cleanups returned.
C16_NothingAfterClose ==
  (w.cleanups = Count(w.log, "cleanup")) =>
  /\ \A j \in DOMAIN w.log :
       w.log[j].call = "_unload_dll" =>
         /\ j > 1
         /\ w.log[j - 1].call = "join" /\ w.log[j - 1].name = "Py_Finalize"
  /\ \A i, j \in DOMAIN w.log :
       (i < j /\ w.log[i].call = "_close_process" /\ w.log[i].ok)
         => w.log[j].call \notin {"spawn", "_unload_dll"}

\* C17: every cleanup() call that returns has attempted to close the process
\* handle and then the cache handle, once each, whether or not the session
\* held a remote module and whether or not finalize or unload failed.
C17_ReturnedCleanupClosedBoth ==
  [][/\ (w'.cleanups = w.cleanups + 1) =>
          /\ Count(Added, "cleanup") = 1
          /\ Count(Added, "_close_process") = 1
          /\ Count(Added, "_close_cache") = 1
          /\ Added[Len(Added) - 1].call = "_close_process"
          /\ Added[Len(Added)].call = "_close_cache"
     /\ ((CleanupStep /\ last'.exc = NoExc) => w'.cleanups = w.cleanups + 1)]_vars

C17_Witness ==
  /\ last.op = "cleanup" /\ last.exc = NoExc /\ w.cleanups = 1
  /\ \E i \in DOMAIN w.log :
       w.log[i].call = "spawn" /\ w.log[i].name = "Py_Finalize" /\ ~w.log[i].ok
  /\ Count(w.log, "_close_process") = 1 /\ Count(w.log, "_close_cache") = 1

\* C18: run(code) with an argument that is not a string raises TypeError,
\* unwrapped, makes no remote invocation and leaves the session unchanged;
\* no caller ever waits on a remote invocation for such an argument.
C18_NonStringTypeError ==
  [][/\ (ops' = ops + 1 /\ thr' = thr /\ last'.op = "run" /\ last'.code.type # "str") =>
          (last'.exc = Exc("TypeError", "none") /\ w' = w /\ phase' = phase)
     /\ \A t \in Threads : thr'[t].pc = "remote" => thr'[t].code.type = "str"]_vars

C18_Witness ==
  /\ last.op = "run" /\ last.exc.kind = "TypeError" /\ last.code.type = "int"
  /\ last.pre = "Ready" /\ Ready(w)

====
